---- MODULE Spec2Model ----
(***************************************************************************)
(* The advisory rule engines of agri-hub:                                  *)
(*   AgriBrain.analyze          (src/main.py)        crop-based rule set   *)
(*   generate_agri_advice       (src/agri_advice.py) stage-based rule set  *)
(*                                                                         *)
(* Both are pure functions of a weather dict and a context.  Weather       *)
(* values are numbers with one decimal (main.py rounds to 0.1); they are   *)
(* held here as integers in tenths of the unit, so 20.1 mm is 201 and the  *)
(* literal threshold 20 of the source is Tenths(20).                       *)
(* Messages are strings; the emoji prefix of the source is written as      *)
(* [RED], [WARN] or [GREEN].                                               *)
(***************************************************************************)
EXTENDS Integers, Sequences, FiniteSets, TLC

VARIABLES
    fn,          \* which evaluator is called: "analyze" or "generate_agri_advice"
    weather,     \* the weather dict passed in: a function from keys to tenths
    farm,        \* the Farm passed to analyze: [owner_name, crop_type]
    crop_stage,  \* the stage string passed to generate_agri_advice
    advice,      \* the list the call returned (<<>> before the call and when it raised)
    raised,      \* the exception the call raised, "none" if it returned
    pc           \* "ready" before the call, "returned" or "raised" after it

vars == <<fn, weather, farm, crop_stage, advice, raised, pc>>

----------------------------------------------------------------------------
(* Bounds of the model *)

\* how many tenths on either side of each threshold the readings cover
Spread == 1

----------------------------------------------------------------------------
(* Units and dicts *)

Tenths(n) == n * 10

Around(n) == (Tenths(n) - Spread)..(Tenths(n) + Spread)

\* dict.get(key, default)
Get(d, key, default) == IF key \in DOMAIN d THEN d[key] ELSE default

\* d[key] of a dict: raises KeyError when the key is absent
HasKey(d, key) == key \in DOMAIN d

----------------------------------------------------------------------------
(* Inputs *)

\* class CropType(str, Enum): the members, named by their values
CropType == {"Maize", "Rice", "Cassava"}

\* a crop_type that is no member of CropType: a plain string
UnknownCrop == "Wheat"

\* the stages the docstring of generate_agri_advice lists
KnownStages == {"planting", "growing", "harvesting"}

\* a crop_stage string outside the documented ones
UnknownStage == "flowering"

Owners == {"Musa Farms", "Chinedu Agro"}

Farms == [owner_name : Owners, crop_type : CropType \cup {UnknownCrop}]

NoFarm == [owner_name |-> "", crop_type |-> ""]

TempValues == Around(28)

RainValues == {0} \cup Around(5) \cup Around(10) \cup Around(20) \cup Around(50)

HumidityValues == Around(50) \cup Around(80)

SoilValues == Around(40)

\* the dicts analyze accepts: every key is read with .get, so any may be absent
AnalyzeWeathers ==
    LET full == [temp : TempValues, rainfall_mm : RainValues, humidity : HumidityValues]
    IN  { [k \in D |-> w[k]] : w \in full, D \in SUBSET {"temp", "rainfall_mm", "humidity"} }

\* the dicts generate_agri_advice is documented to take (temp, rain_forecast_mm,
\* humidity), with or without the soil_moisture key
AdviceWeathers ==
    LET base == [temp : TempValues, rain_forecast_mm : RainValues, humidity : HumidityValues]
        withSoil == [temp : TempValues, rain_forecast_mm : RainValues,
                     humidity : HumidityValues, soil_moisture : SoilValues]
    IN  base \cup withSoil

----------------------------------------------------------------------------
(* Messages *)

\* f"Analyzing for {crop.value} at {farm.owner_name}..."
Header(crop, owner) == "Analyzing for " \o crop \o " at " \o owner \o "..."

MaizeWashOff == "[RED] ALERT: Heavy rain (>20mm) detected. Do NOT apply fertilizer today to avoid wash-off."

MaizeArmyworm == "[WARN] WARNING: High risk of Fall Armyworm. Conditions (Temp > 28C, Humidity < 50%) are favorable. Scout field immediately."

RiceBlast == "[WARN] WARNING: High humidity (>80%) detected. High risk of Rice Blast disease. Monitor crop closely."

CassavaRootRot == "[RED] ALERT: Excessive rainfall (>50mm). Risk of root rot and waterlogging. Ensure drainage channels are clear."

ConditionsNormal == "[GREEN] Conditions look normal. No specific alerts."

NoFertilizer == "[RED] DO NOT apply fertilizer. Heavy rain (>20mm) will wash it away."

ApplyNPK == "[GREEN] Good conditions to apply NPK fertilizer today."

ArmywormAlert == "[WARN] ALERT: High risk of Armyworm. Scout your field this evening."

RushHarvest == "[RED] Rush harvest! Rain expected. Cover harvested crops immediately."

ClearForDrying == "[GREEN] Weather is clear for drying crops."

\* the result of a call: the list returned, or the exception raised
Returns(list) == [advice |-> list, raised |-> "none"]

Raises(exc) == [advice |-> <<>>, raised |-> exc]

----------------------------------------------------------------------------
(* AgriBrain.analyze (src/main.py) *)

\* variant: the wash-off threshold is inclusive
MaizeRules_Inclusive(acc, rain, temp, humidity) ==
    LET a1 == IF rain >= Tenths(20) THEN Append(acc, MaizeWashOff) ELSE acc
    IN  IF temp > Tenths(28) /\ humidity < Tenths(50)
        THEN Append(a1, MaizeArmyworm)
        ELSE a1

\* if crop == CropType.MAIZE: the two independent Maize checks
MaizeRules(acc, rain, temp, humidity) ==
    LET a1 == IF rain > Tenths(20) THEN Append(acc, MaizeWashOff) ELSE acc
    IN  IF temp > Tenths(28) /\ humidity < Tenths(50)
        THEN Append(a1, MaizeArmyworm)
        ELSE a1

\* elif crop == CropType.RICE
RiceRules(acc, humidity) ==
    IF humidity > Tenths(80) THEN Append(acc, RiceBlast) ELSE acc

\* elif crop == CropType.CASSAVA
CassavaRules(acc, rain) ==
    IF rain > Tenths(50) THEN Append(acc, CassavaRootRot) ELSE acc

\* variant: the Rice check sits outside the chain and runs for every crop
CropRules_RiceUnguarded(acc, crop, rain, temp, humidity) ==
    LET a1 == IF crop = "Maize" THEN MaizeRules(acc, rain, temp, humidity)
              ELSE IF crop = "Cassava" THEN CassavaRules(acc, rain)
              ELSE acc
    IN  RiceRules(a1, humidity)

\* the if / elif / elif chain on the crop
CropRules(acc, crop, rain, temp, humidity) ==
    IF crop = "Maize" THEN MaizeRules(acc, rain, temp, humidity)
    ELSE IF crop = "Rice" THEN RiceRules(acc, humidity)
    ELSE IF crop = "Cassava" THEN CassavaRules(acc, rain)
    ELSE acc

\* variant: the fallback tests for an empty list, which the header rules out
Fallback_LenZero(acc) ==
    IF Len(acc) = 0 THEN Append(acc, ConditionsNormal) ELSE acc

\* if len(advice) == 1: advice.append("Conditions look normal ...")
Fallback(acc) ==
    IF Len(acc) = 1 THEN Append(acc, ConditionsNormal) ELSE acc

\* A crop_type that is no CropType member is a plain str: crop.value in the
\* header's f-string raises AttributeError before any rule is looked at.
analyze(w, f) ==
    LET crop     == f.crop_type
        rain     == Get(w, "rainfall_mm", 0)
        temp     == Get(w, "temp", 0)
        humidity == Get(w, "humidity", 0)
    IN  IF crop \notin CropType
        THEN Raises("AttributeError")
        ELSE Returns(Fallback(CropRules(<<Header(crop, f.owner_name)>>,
                                        crop, rain, temp, humidity)))

----------------------------------------------------------------------------
(* generate_agri_advice (src/agri_advice.py) *)

\* variant: the NPK branch looks at the rain only
FertilizerLogic_IgnoresSoil(acc, weather_data, stage) ==
    IF stage = "growing"
    THEN IF weather_data["rain_forecast_mm"] > Tenths(20)
         THEN Returns(Append(acc, NoFertilizer))
         ELSE IF weather_data["rain_forecast_mm"] < Tenths(5)
              THEN Returns(Append(acc, ApplyNPK))
              ELSE Returns(acc)
    ELSE Returns(acc)

\* 1. Fertilizer Logic.  The elif reads weather_data['soil_moisture'] only when
\* rain_forecast_mm < 5 holds (and short-circuits otherwise); with the key
\* absent that read raises KeyError.
FertilizerLogic(acc, weather_data, stage) ==
    IF stage = "growing"
    THEN IF weather_data["rain_forecast_mm"] > Tenths(20)
         THEN Returns(Append(acc, NoFertilizer))
         ELSE IF weather_data["rain_forecast_mm"] < Tenths(5)
              THEN IF ~HasKey(weather_data, "soil_moisture")
                   THEN Raises("KeyError")
                   ELSE IF weather_data["soil_moisture"] > Tenths(40)
                        THEN Returns(Append(acc, ApplyNPK))
                        ELSE Returns(acc)
              ELSE Returns(acc)
    ELSE Returns(acc)

\* 2. Pest Logic
PestLogic(acc, weather_data) ==
    IF weather_data["temp"] > Tenths(28) /\ weather_data["humidity"] < Tenths(50)
    THEN Append(acc, ArmywormAlert)
    ELSE acc

\* variant: the else is lost, the drying message is appended after the if
HarvestLogic_NoElse(acc, weather_data, stage) ==
    IF stage = "harvesting"
    THEN LET a1 == IF weather_data["rain_forecast_mm"] > Tenths(10)
                   THEN Append(acc, RushHarvest)
                   ELSE acc
         IN  Append(a1, ClearForDrying)
    ELSE acc

\* 3. Harvest Logic
HarvestLogic(acc, weather_data, stage) ==
    IF stage = "harvesting"
    THEN IF weather_data["rain_forecast_mm"] > Tenths(10)
         THEN Append(acc, RushHarvest)
         ELSE Append(acc, ClearForDrying)
    ELSE acc

\* variant: the "conditions normal" fallback of analyze is carried over
generate_agri_advice_WithFallback(weather_data, stage) ==
    LET fert == FertilizerLogic(<<>>, weather_data, stage)
        full == HarvestLogic(PestLogic(fert.advice, weather_data), weather_data, stage)
    IN  IF fert.raised # "none"
        THEN fert
        ELSE Returns(IF Len(full) = 0 THEN Append(full, ConditionsNormal) ELSE full)

\* variant: the harvest block is evaluated before the pest block
generate_agri_advice_HarvestFirst(weather_data, stage) ==
    LET fert == FertilizerLogic(<<>>, weather_data, stage)
    IN  IF fert.raised # "none"
        THEN fert
        ELSE Returns(PestLogic(HarvestLogic(fert.advice, weather_data, stage),
                               weather_data))

\* the three blocks in source order; an exception in the first ends the call
generate_agri_advice(weather_data, stage) ==
    LET fert == FertilizerLogic(<<>>, weather_data, stage)
    IN  IF fert.raised # "none"
        THEN fert
        ELSE Returns(HarvestLogic(PestLogic(fert.advice, weather_data),
                                  weather_data, stage))

----------------------------------------------------------------------------
(* The state machine: one call of one evaluator on one input *)

Init ==
    /\ fn \in {"analyze", "generate_agri_advice"}
    /\ IF fn = "analyze"
       THEN /\ weather \in AnalyzeWeathers
            /\ farm \in Farms
            /\ crop_stage = ""
       ELSE /\ weather \in AdviceWeathers
            /\ farm = NoFarm
            /\ crop_stage \in KnownStages \cup {UnknownStage}
    /\ advice = <<>>
    /\ raised = "none"
    /\ pc = "ready"

Finish(result) ==
    /\ advice' = result.advice
    /\ raised' = result.raised
    /\ pc' = IF result.raised = "none" THEN "returned" ELSE "raised"
    /\ UNCHANGED <<fn, weather, farm, crop_stage>>

Analyze ==
    /\ pc = "ready"
    /\ fn = "analyze"
    /\ Finish(analyze(weather, farm))

GenerateAgriAdvice ==
    /\ pc = "ready"
    /\ fn = "generate_agri_advice"
    /\ Finish(generate_agri_advice(weather, crop_stage))

Next == Analyze \/ GenerateAgriAdvice

Spec == Init /\ [][Next]_vars

----------------------------------------------------------------------------
(* Vocabulary of the properties *)

Contains(seq, m) == \E i \in DOMAIN seq : seq[i] = m

Count(seq, m) == Cardinality({i \in DOMAIN seq : seq[i] = m})

Range(seq) == {seq[i] : i \in DOMAIN seq}

AnalyzeDone == fn = "analyze" /\ pc # "ready"

AdviceDone == fn = "generate_agri_advice" /\ pc # "ready"

\* the readings of the call, in tenths; analyze reads an absent key as 0
RainOf(w) == IF fn = "analyze" THEN Get(w, "rainfall_mm", 0) ELSE w["rain_forecast_mm"]

TempOf(w) == IF fn = "analyze" THEN Get(w, "temp", 0) ELSE w["temp"]

HumidityOf(w) == IF fn = "analyze" THEN Get(w, "humidity", 0) ELSE w["humidity"]

SoilAbsent(w) == "soil_moisture" \notin DOMAIN w

SoilAbove(w, n) == ~SoilAbsent(w) /\ w["soil_moisture"] > n

SoilIs(w, n) == ~SoilAbsent(w) /\ w["soil_moisture"] = n

HotAndDry(w) == TempOf(w) > Tenths(28) /\ HumidityOf(w) < Tenths(50)

AllHeaders == {Header(c, o) : c \in CropType, o \in Owners}

\* the alerts that belong to a crop
OwnAlerts(crop) ==
    IF crop = "Maize" THEN {MaizeWashOff, MaizeArmyworm}
    ELSE IF crop = "Rice" THEN {RiceBlast}
    ELSE IF crop = "Cassava" THEN {CassavaRootRot}
    ELSE {}

\* some condition of the farm's own crop matches the reading
OwnCropMatches(crop, w) ==
    \/ crop = "Maize" /\ (RainOf(w) > Tenths(20) \/ HotAndDry(w))
    \/ crop = "Rice" /\ HumidityOf(w) > Tenths(80)
    \/ crop = "Cassava" /\ RainOf(w) > Tenths(50)

----------------------------------------------------------------------------
(* C1 *)

\* C1: for a farm whose crop is Maize, Rice or Cassava and any weather reading,
\* analyze returns (raises nothing) a list of at least 2 entries whose first
\* entry is the header naming the crop and the owner, and no later entry is a
\* header.
C1_HeaderFirstOnce ==
    (AnalyzeDone /\ farm.crop_type \in CropType) =>
        /\ pc = "returned"
        /\ Len(advice) >= 2
        /\ advice[1] = Header(farm.crop_type, farm.owner_name)
        /\ \A i \in 2..Len(advice) : advice[i] \notin AllHeaders

\* a Maize call in which both alerts follow the header
C1_Witness ==
    /\ AnalyzeDone
    /\ farm.crop_type = "Maize"
    /\ Len(advice) = 3
    /\ advice[1] = Header("Maize", farm.owner_name)

----------------------------------------------------------------------------
(* C2 *)

\* C2: for a farm whose crop is Maize, Rice or Cassava, the list analyze returns
\* is exactly [header, "conditions normal"] if and only if no condition of the
\* farm's own crop matches the reading; when one matches, "conditions normal" is
\* absent; and every entry is the header, "conditions normal" or an alert of the
\* farm's own crop, so another crop's condition never adds a message.
C2_NormalIffNoOwnMatch ==
    (AnalyzeDone /\ farm.crop_type \in CropType) =>
        LET crop == farm.crop_type
            hdr  == Header(crop, farm.owner_name)
        IN  /\ (advice = <<hdr, ConditionsNormal>>) <=> ~OwnCropMatches(crop, weather)
            /\ OwnCropMatches(crop, weather) => ~Contains(advice, ConditionsNormal)
            /\ Range(advice) \subseteq {hdr, ConditionsNormal} \cup OwnAlerts(crop)

\* a Rice farm under heavy rain and a hot dry spell (the Maize and Cassava
\* conditions) with humidity not above 80: header and "conditions normal" only
C2_Witness ==
    /\ AnalyzeDone
    /\ farm.crop_type = "Rice"
    /\ RainOf(weather) > Tenths(50)
    /\ HotAndDry(weather)
    /\ advice = <<Header("Rice", farm.owner_name), ConditionsNormal>>

----------------------------------------------------------------------------
(* C3 *)

\* the smallest reading above n and the largest below it, at the 0.1 resolution
JustAbove(n) == Tenths(n) + 1

JustBelow(n) == Tenths(n) - 1

\* C3 (crop-based part): a reading exactly at a threshold of analyze does not
\* trigger the rule, a reading just past it does.
C3_CropBased ==
    (AnalyzeDone /\ pc = "returned") =>
        LET r == RainOf(weather)
            t == TempOf(weather)
            h == HumidityOf(weather)
            crop == farm.crop_type
        IN  /\ (crop = "Maize" /\ r = Tenths(20)) => ~Contains(advice, MaizeWashOff)
            /\ (crop = "Maize" /\ r = JustAbove(20)) => Contains(advice, MaizeWashOff)
            /\ (crop = "Maize" /\ (t = Tenths(28) \/ h = Tenths(50)))
                   => ~Contains(advice, MaizeArmyworm)
            /\ (crop = "Maize" /\ t = JustAbove(28) /\ h = JustBelow(50))
                   => Contains(advice, MaizeArmyworm)
            /\ (crop = "Rice" /\ h = Tenths(80)) => ~Contains(advice, RiceBlast)
            /\ (crop = "Rice" /\ h = JustAbove(80)) => Contains(advice, RiceBlast)
            /\ (crop = "Cassava" /\ r = Tenths(50)) => ~Contains(advice, CassavaRootRot)
            /\ (crop = "Cassava" /\ r = JustAbove(50)) => Contains(advice, CassavaRootRot)

\* C3 (stage-based part): the same for the thresholds of generate_agri_advice.
\* The "does not trigger" half is stated of every call; the "does trigger" half
\* of every call that returns a list.
C3_StageBased ==
    AdviceDone =>
        LET r == RainOf(weather)
            t == TempOf(weather)
            h == HumidityOf(weather)
            ret == pc = "returned"
        IN  /\ (crop_stage = "growing" /\ r = Tenths(20)) => ~Contains(advice, NoFertilizer)
            /\ (crop_stage = "growing" /\ r = JustAbove(20)) => Contains(advice, NoFertilizer)
            /\ (crop_stage = "growing" /\ (r = Tenths(5) \/ SoilIs(weather, Tenths(40))))
                   => ~Contains(advice, ApplyNPK)
            /\ (crop_stage = "growing" /\ r = JustBelow(5) /\ SoilAbove(weather, Tenths(40)))
                   => Contains(advice, ApplyNPK)
            /\ (t = Tenths(28) \/ h = Tenths(50)) => ~Contains(advice, ArmywormAlert)
            /\ (ret /\ t = JustAbove(28) /\ h = JustBelow(50)) => Contains(advice, ArmywormAlert)
            /\ (crop_stage = "harvesting" /\ r = Tenths(10))
                   => ~Contains(advice, RushHarvest) /\ Contains(advice, ClearForDrying)
            /\ (crop_stage = "harvesting" /\ r = JustAbove(10)) => Contains(advice, RushHarvest)

----------------------------------------------------------------------------
(* C4 *)

\* C4: in generate_agri_advice the "do not fertilize" message is in the output
\* exactly when the stage is growing and rain > 20, whatever the soil moisture;
\* the NPK message exactly when the stage is growing, rain < 5 and soil moisture
\* > 40; the two never appear together, and neither appears for another stage.
C4_FertilizerExclusive ==
    AdviceDone =>
        LET r == RainOf(weather)
            growing == crop_stage = "growing"
        IN  /\ (growing /\ r > Tenths(20)) =>
                   (pc = "returned" /\ Count(advice, NoFertilizer) = 1
                                    /\ ~Contains(advice, ApplyNPK))
            /\ Contains(advice, NoFertilizer) <=> (growing /\ r > Tenths(20))
            /\ Contains(advice, ApplyNPK)
                   <=> (growing /\ r < Tenths(5) /\ SoilAbove(weather, Tenths(40)))
            /\ ~(Contains(advice, NoFertilizer) /\ Contains(advice, ApplyNPK))
            /\ ~growing => ~Contains(advice, NoFertilizer) /\ ~Contains(advice, ApplyNPK)

\* growing, rain above 20 and soil moisture above 40: the wash-off message wins
C4_Witness ==
    /\ AdviceDone
    /\ crop_stage = "growing"
    /\ RainOf(weather) > Tenths(20)
    /\ SoilAbove(weather, Tenths(40))
    /\ Contains(advice, NoFertilizer)
    /\ ~Contains(advice, ApplyNPK)

----------------------------------------------------------------------------
(* C5 *)

\* C5: with the stage growing and soil_moisture absent from the reading,
\* generate_agri_advice raises nothing for any rain value: the NPK branch does
\* not fire and the wash-off and Armyworm messages are produced as usual.
C5_MissingSoilNoException ==
    (AdviceDone /\ crop_stage = "growing" /\ SoilAbsent(weather)) =>
        /\ raised = "none"
        /\ ~Contains(advice, ApplyNPK)
        /\ Contains(advice, NoFertilizer) <=> RainOf(weather) > Tenths(20)
        /\ Contains(advice, ArmywormAlert) <=> HotAndDry(weather)

----------------------------------------------------------------------------
(* C6 *)

\* C6: a crop type outside {Maize, Rice, Cassava} given to analyze, or a stage
\* outside {planting, growing, harvesting} given to generate_agri_advice, makes
\* the call fail with an error (InvalidInput) instead of returning a list.
C6_UnknownInputFailsFast ==
    /\ (AnalyzeDone /\ farm.crop_type \notin CropType) => pc = "raised"
    /\ (AdviceDone /\ crop_stage \notin KnownStages) => pc = "raised"

----------------------------------------------------------------------------
(* C7 *)

\* C7: with the stage harvesting, generate_agri_advice returns a list holding
\* exactly one harvest message: "rush harvest" if rain > 10, "clear for drying"
\* otherwise.  For another stage the output holds no harvest message.
C7_OneHarvestMessage ==
    AdviceDone =>
        LET rush  == Count(advice, RushHarvest)
            clear == Count(advice, ClearForDrying)
        IN  /\ crop_stage = "harvesting" =>
                   /\ pc = "returned"
                   /\ rush + clear = 1
                   /\ rush = 1 <=> RainOf(weather) > Tenths(10)
            /\ crop_stage # "harvesting" => rush + clear = 0

\* harvesting with exactly 10 mm of rain: the drying message, not the rush one
C7_Witness ==
    /\ AdviceDone
    /\ crop_stage = "harvesting"
    /\ RainOf(weather) = Tenths(10)
    /\ Contains(advice, ClearForDrying)
    /\ ~Contains(advice, RushHarvest)

----------------------------------------------------------------------------
(* C8 *)

\* C8: for every stage (planting, growing, harvesting) and every reading,
\* generate_agri_advice returns a list that holds the Armyworm warning exactly
\* once if temp > 28 and humidity < 50 and not at all otherwise; with the stage
\* planting the list is exactly [Armyworm warning] or empty.
C8_ArmywormEveryStage ==
    (AdviceDone /\ crop_stage \in KnownStages) =>
        /\ pc = "returned"
        /\ Count(advice, ArmywormAlert) = (IF HotAndDry(weather) THEN 1 ELSE 0)
        /\ crop_stage = "planting" =>
               advice = (IF HotAndDry(weather) THEN <<ArmywormAlert>> ELSE <<>>)

----------------------------------------------------------------------------
(* C9 *)

\* no rule of generate_agri_advice applies to the call
NoStageRuleFires ==
    /\ ~(crop_stage = "growing" /\ RainOf(weather) > Tenths(20))
    /\ ~(crop_stage = "growing" /\ RainOf(weather) < Tenths(5)
                                /\ SoilAbove(weather, Tenths(40)))
    /\ ~HotAndDry(weather)
    /\ crop_stage # "harvesting"

\* the lengths of the lists generate_agri_advice returns over all documented
\* stages and all readings
ProducedLengths ==
    { Len(generate_agri_advice(w, st).advice) :
        <<w, st>> \in { x \in AdviceWeathers \X KnownStages :
                          generate_agri_advice(x[1], x[2]).raised = "none" } }

\* C9 as stated: the list has between 0 and 3 messages, each length from 0 to 3
\* is produced by some stage and reading (looked at in a call whose output is a
\* longest one), and with no rule firing the list is empty.
C9_LengthZeroToThree ==
    /\ AdviceDone => Len(advice) \in 0..3
    /\ (AdviceDone /\ NoStageRuleFires) => advice = <<>>
    /\ (AdviceDone /\ \A n \in ProducedLengths : n <= Len(advice)) =>
           \A n \in 0..3 : n \in ProducedLengths

\* C9 (amended): the output of generate_agri_advice has between 0 and 2
\* messages, each length from 0 to 2 is produced by some stage and reading, and
\* there is no fallback message: with no rule firing nothing is emitted.
C9_LengthZeroToTwo ==
    /\ AdviceDone => Len(advice) \in 0..2
    /\ (AdviceDone /\ NoStageRuleFires) => advice = <<>>
    /\ AdviceDone => ProducedLengths = 0..2

\* growing under heavy rain in a hot dry spell: two messages, the longest output
C9_Witness ==
    /\ AdviceDone
    /\ pc = "returned"
    /\ crop_stage = "growing"
    /\ advice = <<NoFertilizer, ArmywormAlert>>

----------------------------------------------------------------------------
(* C10 *)

\* C10: the output is ordered by rule evaluation, not by severity.  analyze on
\* a Maize farm with both conditions met returns header, wash-off alert,
\* Fall-Armyworm warning in that order.  In a list generate_agri_advice returns
\* a fertilizer message comes before the Armyworm warning and the Armyworm
\* warning before a harvest message; harvesting with rain > 10, temp > 28 and
\* humidity < 50 gives the warning first, then "rush harvest".
C10_EvaluationOrder ==
    /\ (AnalyzeDone /\ farm.crop_type = "Maize"
            /\ RainOf(weather) > Tenths(20) /\ HotAndDry(weather)) =>
           advice = <<Header("Maize", farm.owner_name), MaizeWashOff, MaizeArmyworm>>
    /\ AdviceDone =>
           \A i, j \in DOMAIN advice :
               /\ (advice[i] \in {NoFertilizer, ApplyNPK} /\ advice[j] = ArmywormAlert)
                      => i < j
               /\ (advice[i] = ArmywormAlert /\ advice[j] \in {RushHarvest, ClearForDrying})
                      => i < j
    /\ (AdviceDone /\ crop_stage = "harvesting"
            /\ RainOf(weather) > Tenths(10) /\ HotAndDry(weather)) =>
           advice = <<ArmywormAlert, RushHarvest>>

\* harvesting, hot and dry, rain above 10: the Warning precedes the Critical message
C10_Witness ==
    /\ AdviceDone
    /\ crop_stage = "harvesting"
    /\ advice = <<ArmywormAlert, RushHarvest>>

====
